---- MODULE Spec2Model ----
(***************************************************************************)
(* Sort Inbox (Obsidian plugin): the bulk run of SortInboxPlugin.sortInbox *)
(* with its single-flight guard and Summary, the move of a classified      *)
(* note, the inbox membership predicate and the parsing of the model's     *)
(* answer (src/main.ts second class body, src/classify.ts); classifyFile   *)
(* with its truncation, classifyFileBatch, the interval timer of           *)
(* setupAutoClassify and the 'create' events of handleFileCreated.         *)
(*                                                                         *)
(* Strings are sequences of characters; a character is a one-element       *)
(* string atom.  The five characters of the sentinel text are written      *)
(* "bun","rui","shi","na","i" (one atom per character).                    *)
(***************************************************************************)
EXTENDS Integers, Sequences, FiniteSets, TLC

VARIABLES
    settings,      \* this.settings
    files,         \* the vault's markdown files, in getMarkdownFiles order
    folders,       \* the folders that exist in the vault
    currentBatch,  \* this.currentBatch: the batch object, or NoBatch for null
    runs,          \* the sortInbox calls in flight, and those just returned
    notice,        \* the last Notice shown by sortInbox
    now,           \* Date.now()
    call,          \* one call of a function: its arguments and result
    loaded,        \* onload has run and onunload has not
    autoClassifyIntervalId,  \* this.autoClassifyIntervalId, 0 for null
    timers,        \* the live timers of window: setInterval and setTimeout
    saving,        \* the saveSettings calls that await saveData
    events,        \* the 'create' events delivered so far
    singles        \* the classifySingleFile calls started

\* The state of the automatic classification.
autoVars == <<loaded, autoClassifyIntervalId, timers, saving, events, singles>>

vars == <<settings, files, folders, currentBatch, runs, notice, now, call,
          loaded, autoClassifyIntervalId, timers, saving, events, singles>>

(***************************************************************************)
(* Bounds of the model.                                                    *)
(***************************************************************************)
MaxRuns == 2
MaxPieces == 3
MaxItems == 2
MaxFolders == 2
MaxPathLen == 5
MaxFiles == 2
MaxClock == 1
MaxTasks == 11
MaxSaves == 2
MaxEvents == 2

(***************************************************************************)
(* JavaScript's null and undefined, as values no string is equal to.       *)
(***************************************************************************)
null == <<"<null>">>
undefined == <<"<undefined>">>

\* new Map() and {}: no key.
emptyMap == [p \in {} |-> null]

(***************************************************************************)
(* String primitives of JavaScript used by the code.                       *)
(***************************************************************************)
WhiteSpace == {" "}

Slice(s, from, to) == IF to < from THEN <<>> ELSE SubSeq(s, from, to)

startsWith(s, p) ==
    /\ Len(p) <= Len(s)
    /\ Slice(s, 1, Len(p)) = p

endsWith(s, p) ==
    /\ Len(p) <= Len(s)
    /\ Slice(s, Len(s) - Len(p) + 1, Len(s)) = p

includes(s, p) ==
    \E i \in 0..(Len(s) - Len(p)) : Slice(s, i + 1, i + Len(p)) = p

RECURSIVE trimStart(_)
trimStart(s) ==
    IF s # <<>> /\ Head(s) \in WhiteSpace THEN trimStart(Tail(s)) ELSE s

RECURSIVE trimEnd(_)
trimEnd(s) ==
    IF s # <<>> /\ s[Len(s)] \in WhiteSpace
    THEN trimEnd(Slice(s, 1, Len(s) - 1))
    ELSE s

trim(s) == trimEnd(trimStart(s))

RECURSIVE Concat(_)
Concat(ss) == IF ss = <<>> THEN <<>> ELSE Head(ss) \o Concat(Tail(ss))

(***************************************************************************)
(* normalizePath of the host API: every run of '/' and '\' becomes one     *)
(* '/', leading and trailing '/' are stripped, and the empty result is the *)
(* vault root "/".                                                         *)
(***************************************************************************)
IsSep(c) == c \in {"/", "\\"}

RECURSIVE collapseSeps(_)
collapseSeps(s) ==
    IF s = <<>> THEN <<>>
    ELSE IF IsSep(Head(s))
         THEN IF Len(s) > 1 /\ IsSep(s[2])
              THEN collapseSeps(Tail(s))
              ELSE <<"/">> \o collapseSeps(Tail(s))
         ELSE <<Head(s)>> \o collapseSeps(Tail(s))

stripSlashes(s) ==
    LET a == IF s # <<>> /\ Head(s) = "/" THEN Tail(s) ELSE s
    IN  IF a # <<>> /\ a[Len(a)] = "/" THEN Slice(a, 1, Len(a) - 1) ELSE a

normalizePath(p) ==
    LET q == stripSlashes(collapseSeps(p))
    IN  IF q = <<>> THEN <<"/">> ELSE q

(***************************************************************************)
(* SortInboxPlugin.getNormalizedInboxPath / isFileInInboxFolder.           *)
(***************************************************************************)
getNormalizedInboxPath(inboxFolder) ==
    LET t == trim(inboxFolder)
        u == IF endsWith(t, <<"/">>) \/ endsWith(t, <<"\\">>)
             THEN Slice(t, 1, Len(t) - 1)
             ELSE t
    IN  normalizePath(u)

isFileInInboxFolder(inboxFolder, path) ==
    LET inboxPath == getNormalizedInboxPath(inboxFolder)
        filePath == normalizePath(path)
    IN  IF inboxPath = <<>>
        THEN ~includes(filePath, <<"/">>)
        ELSE /\ startsWith(filePath, inboxPath \o <<"/">>)
             /\ ~includes(Slice(filePath, Len(inboxPath) + 2, Len(filePath)), <<"/">>)

(***************************************************************************)
(* parseGeminiResponse.  A response is a record: candidates is the number  *)
(* of candidates, wellFormed says whether candidates[0].content.parts[0]   *)
(* .text can be read, text is that text.                                   *)
(***************************************************************************)
Sentinel == <<"bun", "rui", "shi", "na", "i">>

firstMatch_LastDeclaredWins(text, targetFolders) ==
    LET M == {k \in 1..Len(targetFolders) : includes(text, targetFolders[k])}
    IN  IF M = {} THEN null
        ELSE targetFolders[CHOOSE k \in M : \A j \in M : j <= k]

RECURSIVE firstMatch(_, _)
firstMatch(text, targetFolders) ==
    IF targetFolders = <<>> THEN null
    ELSE LET folder == Head(targetFolders)
         IN  IF text = folder \/ endsWith(text, folder) \/ includes(text, folder)
             THEN folder
             ELSE firstMatch(text, Tail(targetFolders))

\* lines 188-201: the sentinel test, then the loop over targetFolders.
decide_FoldersFirst(text, targetFolders) ==
    IF firstMatch(text, targetFolders) # null
    THEN firstMatch(text, targetFolders)
    ELSE null

decide(text, targetFolders) ==
    IF text = Sentinel \/ includes(text, Sentinel) THEN null
    ELSE firstMatch(text, targetFolders)

\* The try block (180-201): the value it returns, or error when reading
\* candidates[0].content.parts[0].text throws a TypeError.
tryParse(response, targetFolders) ==
    IF response.candidates = 0 THEN [error |-> FALSE, value |-> null]
    ELSE IF ~response.wellFormed THEN [error |-> TRUE, value |-> null]
    ELSE [error |-> FALSE, value |-> decide(trim(response.text), targetFolders)]

\* The catch (202-205) logs and returns null: nothing is thrown to the caller.
catchParse_Rethrows(attempt) ==
    [threw |-> attempt.error, value |-> attempt.value]

catchParse(attempt) ==
    [threw |-> FALSE, value |-> IF attempt.error THEN null ELSE attempt.value]

\* One call of parseGeminiResponse: whether it threw, and the value returned.
parseGeminiResponseCall(response, targetFolders) ==
    catchParse(tryParse(response, targetFolders))

parseGeminiResponse(response, targetFolders) ==
    parseGeminiResponseCall(response, targetFolders).value

(***************************************************************************)
(* batchClassifyFiles.  The text of a batch response is a sequence of      *)
(* tokens, each a record with a kind t: "[" and "]", "prose" (any text     *)
(* that is not JSON), "null" (the JSON value null as an array element) and *)
(* "object": [t, id, folder] is the JSON object                            *)
(* {"id": id, "folder": folder}; a separating comma goes with the element. *)
(***************************************************************************)
Tok(kind) == [t |-> kind]

Obj(id, folder) == [t |-> "object", id |-> id, folder |-> folder]

IsObject(tok) == tok.t = "object"

fileId(index) == <<"file_", index>>

\* responseText.match(/\[\s*\{[\s\S]*\}\s*\]/): leftmost start, greedy end.
matchStarts(toks) ==
    {i \in 1..Len(toks) :
        /\ toks[i].t = "["
        /\ i + 1 <= Len(toks)
        /\ IsObject(toks[i + 1])
        /\ \E j \in (i + 2)..Len(toks) : toks[j].t = "]" /\ IsObject(toks[j - 1])}

Min(S) == CHOOSE x \in S : \A y \in S : x <= y
Max(S) == CHOOSE x \in S : \A y \in S : x >= y

hasJsonMatch(toks) == matchStarts(toks) # {}

jsonMatch(toks) ==
    LET i == Min(matchStarts(toks))
        j == Max({k \in (i + 2)..Len(toks) :
                     toks[k].t = "]" /\ IsObject(toks[k - 1])})
    IN  Slice(toks, i, j)

\* JSON.parse of the matched text: it throws unless the text is one array.
jsonParses(m) ==
    \A k \in 2..(Len(m) - 1) : m[k].t \in {"object", "null"}

\* lines 418-423: a folder outside targetFolders becomes null.
validatedFolder_Trusting(folder, targetFolders) == folder

validatedFolder(folder, targetFolders) ==
    IF folder = null \/ \E t \in 1..Len(targetFolders) : targetFolders[t] = folder
    THEN folder
    ELSE null

\* The loop over the parsed items: item.id of a null item throws, which ends
\* the loop with the entries set so far.
RECURSIVE applyItems(_, _, _, _)
applyItems(items, paths, targetFolders, results) ==
    IF items = <<>> THEN results
    ELSE LET item == Head(items)
         IN  IF item.t = "null" THEN results
             ELSE LET folder == IF item.folder = Sentinel THEN null ELSE item.folder
                      known == \E n \in 1..Len(paths) : fileId(n) = item.id
                      n == CHOOSE n \in 1..Len(paths) : fileId(n) = item.id
                      value == validatedFolder(folder, targetFolders)
                      next == IF known
                              THEN [p \in (DOMAIN results) \cup {paths[n]} |->
                                       IF p = paths[n] THEN value ELSE results[p]]
                              ELSE results
                  IN  applyItems(Tail(items), paths, targetFolders, next)

\* paths: the paths of the files, in order; readOk: every cachedRead
\* succeeds; fetched: what sendGeminiAPIRequest does.
\* The try block (313-431): the map built, and error when something was
\* thrown to the outer catch.  A failing JSON.parse and a failing loop end in
\* the inner catch (428-430) with the entries set so far.
tryBatch(paths, targetFolders, geminiApiKey, readOk, fetched) ==
    IF geminiApiKey = <<>> THEN [error |-> TRUE, results |-> emptyMap]
    ELSE IF ~readOk THEN [error |-> TRUE, results |-> emptyMap]
    ELSE IF fetched.kind # "ok" THEN [error |-> TRUE, results |-> emptyMap]
    ELSE IF fetched.response.candidates = 0 THEN [error |-> FALSE, results |-> emptyMap]
    ELSE IF ~fetched.response.wellFormed THEN [error |-> TRUE, results |-> emptyMap]
    ELSE IF ~hasJsonMatch(fetched.response.text)
    THEN [error |-> FALSE, results |-> emptyMap]
    ELSE LET m == jsonMatch(fetched.response.text)
         IN  IF ~jsonParses(m) THEN [error |-> FALSE, results |-> emptyMap]
             ELSE [error |-> FALSE,
                   results |-> applyItems(Slice(m, 2, Len(m) - 1), paths,
                                          targetFolders, emptyMap)]

\* The outer catch (432-434) logs; line 436 returns the map.
catchBatch_Rethrows(attempt) ==
    [threw |-> attempt.error, value |-> attempt.results]

catchBatch(attempt) == [threw |-> FALSE, value |-> attempt.results]

\* One call of batchClassifyFiles: whether it threw, and the map returned.
batchClassifyFilesCall(paths, targetFolders, geminiApiKey, readOk, fetched) ==
    catchBatch(tryBatch(paths, targetFolders, geminiApiKey, readOk, fetched))

batchClassifyFiles(paths, targetFolders, geminiApiKey, readOk, fetched) ==
    batchClassifyFilesCall(paths, targetFolders, geminiApiKey, readOk, fetched).value

(***************************************************************************)
(* classifyFile and the truncation of the content.  The content of a note  *)
(* is a sequence of character codes; the code of '.' is 0.                 *)
(***************************************************************************)
Ellipsis == <<0, 0, 0>>

\* content.length > maxLength ? content.substring(0, maxLength) + "..." : content
truncate_DropsEllipsis(content, maxLength) ==
    IF Len(content) > maxLength THEN Slice(content, 1, maxLength) ELSE content

truncate(content, maxLength) ==
    IF Len(content) > maxLength
    THEN Slice(content, 1, maxLength) \o Ellipsis
    ELSE content

defaultMaxContentLength == 1000

batchMaxLength == 300

\* settings.classificationOptions.maxContentLength || 1000 (0 is unset)
singleMaxLength(maxContentLength) ==
    IF maxContentLength = 0 THEN defaultMaxContentLength ELSE maxContentLength

\* The callback of files.map in batchClassifyFiles (323-342), after the read.
batchFileData(content, index) ==
    [id |-> fileId(index + 1), content |-> truncate(content, batchMaxLength)]

\* The message of the error sendGeminiAPIRequest throws (234-245).
requestErrorMessage(kind) ==
    CASE kind = "timeout" -> "API request timed out"
      [] kind = "status" -> "API request failed with status"
      [] kind = "transport" -> "fetch failed"

\* The try block of classifyFile (27-64), with callGeminiAPI (115-134): the
\* result it returns or the message of the error it throws, and the
\* requests sent to the model endpoint.
tryClassify(content, readOk, geminiApiKey, maxContentLength, targetFolders, fetched) ==
    LET prompt == [content |-> truncate(content, singleMaxLength(maxContentLength)),
                   folders |-> targetFolders]
    IN  IF ~readOk
        THEN [error |-> TRUE, message |-> <<"read failed">>, result |-> null,
              requests |-> <<>>]
        ELSE IF geminiApiKey = <<>>
        THEN [error |-> TRUE, message |-> <<"API key is not set">>, result |-> null,
              requests |-> <<>>]
        ELSE IF fetched.kind # "ok"
        THEN [error |-> TRUE,
              message |-> <<"API call failed: ", requestErrorMessage(fetched.kind)>>,
              result |-> null, requests |-> <<prompt>>]
        ELSE [error |-> FALSE, message |-> <<>>,
              result |-> parseGeminiResponse(fetched.response, targetFolders),
              requests |-> <<prompt>>]

\* The return of the try block (59-64) and the catch (65-74).
catchClassify_Rethrows(attempt) ==
    [threw |-> attempt.error,
     result |-> [targetFolder |-> attempt.result, success |-> ~attempt.error,
                 status |-> "COMPLETED", error |-> <<>>],
     requests |-> attempt.requests]

catchClassify(attempt) ==
    [threw |-> FALSE,
     result |-> IF attempt.error
                THEN [targetFolder |-> null, success |-> FALSE,
                      status |-> "FAILED", error |-> attempt.message]
                ELSE [targetFolder |-> attempt.result, success |-> TRUE,
                      status |-> "COMPLETED", error |-> <<>>],
     requests |-> attempt.requests]

\* One call of classifyFile.
classifyFile(content, readOk, geminiApiKey, maxContentLength, targetFolders, fetched) ==
    catchClassify(tryClassify(content, readOk, geminiApiKey, maxContentLength,
                              targetFolders, fetched))

(***************************************************************************)
(* The vault and the settings.                                             *)
(***************************************************************************)
FolderA == <<"A">>
FolderAB == <<"A", "B">>
FolderB == <<"B">>
FolderX == <<"X">>

\* The watch folder of the model's vaults.
Inbox == <<"N">>

NameChars == <<"a", "b", "c", "d", "e">>

RECURSIVE lastSlash(_, _)
lastSlash(p, k) == IF k = 0 \/ p[k] = "/" THEN k ELSE lastSlash(p, k - 1)

\* file.name: the path after its last '/'.
fileName(path) == Slice(path, lastSlash(path, Len(path)) + 1, Len(path))

newSummary(n) ==
    [totalFiles |-> n, classifiedFiles |-> 0, skippedFiles |-> 0,
     failedFiles |-> 0, folderCounts |-> emptyMap, durationMs |-> 0]

\* private currentBatch: ClassificationBatch | null = null.  A batch object
\* carries an id that tells it from the object created before it.
NoBatch ==
    [id |-> 0, tasks |-> <<>>, summary |-> newSummary(0), inProgress |-> FALSE,
     startTime |-> 0]

\* if (this.currentBatch && this.currentBatch.inProgress)
GuardRejects_Never == FALSE

GuardRejects_Inverted == currentBatch # NoBatch /\ ~currentBatch.inProgress

GuardRejects == currentBatch # NoBatch /\ currentBatch.inProgress

RECURSIVE filterInbox(_, _)
filterInbox(ids, inboxFolder) ==
    IF ids = <<>> THEN <<>>
    ELSE (IF isFileInInboxFolder(inboxFolder, files[Head(ids)].path)
          THEN <<Head(ids)>> ELSE <<>>) \o filterInbox(Tail(ids), inboxFolder)

\* allFiles.filter(file => this.isFileInInboxFolder(file))
Candidates_AllMarkdown == [k \in 1..Len(files) |-> k]

Candidates_ListedTwice ==
    filterInbox([k \in 1..Len(files) |-> k], settings.inboxFolder)
        \o filterInbox([k \in 1..Len(files) |-> k], settings.inboxFolder)

Candidates == filterInbox([k \in 1..Len(files) |-> k], settings.inboxFolder)

newBatch(fs) ==
    [id |-> IF currentBatch.id = 1 THEN 2 ELSE 1,
     tasks |-> fs, summary |-> newSummary(Len(fs)), inProgress |-> TRUE,
     startTime |-> now]

newRun(fs) ==
    [files |-> fs, i |-> 1, pc |-> "read",
     targetFolder |-> null, fullTargetFolder |-> null, targetPath |-> null,
     submitted |-> <<fs[1]>>, log |-> <<>>,
     startPaths |-> [k \in 1..Len(fs) |-> files[fs[k]].path]]

(***************************************************************************)
(* The per-file loop of sortInbox (main.ts 526-560).  An outcome lands in  *)
(* the Summary of this.currentBatch; after the last file the run ends.     *)
(***************************************************************************)
bumpFolderCount(fc, folder) ==
    [f \in (DOMAIN fc) \cup {folder} |->
        IF f = folder THEN (IF f \in DOMAIN fc THEN fc[f] ELSE 0) + 1 ELSE fc[f]]

countOutcome_FailedFallsThrough(summary, kind, folder) ==
    CASE kind = "classified" ->
            [summary EXCEPT !.classifiedFiles = @ + 1,
                            !.folderCounts = bumpFolderCount(@, folder)]
      [] kind = "skipped" -> [summary EXCEPT !.skippedFiles = @ + 1]
      [] kind = "failed" -> [summary EXCEPT !.skippedFiles = @ + 1,
                                            !.failedFiles = @ + 1]

countOutcome(summary, kind, folder) ==
    CASE kind = "classified" ->
            [summary EXCEPT !.classifiedFiles = @ + 1,
                            !.folderCounts = bumpFolderCount(@, folder)]
      [] kind = "skipped" -> [summary EXCEPT !.skippedFiles = @ + 1]
      [] kind = "failed" -> [summary EXCEPT !.failedFiles = @ + 1]

\* lines 556-557
finishBatch_KeepsFlag(batch) ==
    [batch EXCEPT !.summary.durationMs = now - batch.startTime]

finishBatch(batch) ==
    [batch EXCEPT !.inProgress = FALSE,
                  !.summary.durationMs = now - batch.startTime]

\* for (const file of files): the loop goes on after any outcome.
loopContinues_StopsOnFailure(run, kind) ==
    run.i < Len(run.files) /\ kind # "failed"

loopContinues(run, kind) == run.i < Len(run.files)

Land(r, kind, cause) ==
    LET run == runs[r]
        entry == [file |-> run.files[run.i], kind |-> kind, cause |-> cause]
        counted == [currentBatch EXCEPT !.summary =
                        countOutcome(@, kind, run.targetFolder)]
        cleared == [run EXCEPT !.targetFolder = null, !.fullTargetFolder = null,
                               !.targetPath = null, !.log = Append(@, entry)]
    IN  IF loopContinues(run, kind)
           THEN /\ currentBatch' = counted
                /\ runs' = [runs EXCEPT ![r] =
                               [cleared EXCEPT !.i = @ + 1, !.pc = "read",
                                   !.submitted = Append(@, run.files[run.i + 1])]]
                /\ UNCHANGED notice
           ELSE /\ currentBatch' = finishBatch(counted)
                /\ runs' = [runs EXCEPT ![r] = [cleared EXCEPT !.pc = "done"]]
                \* showClassificationResults
                /\ notice' = "done"

(***************************************************************************)
(* sortInbox up to its first await (main.ts 479-528): the guard, the       *)
(* candidate files, the new batch, and classifyFile of the first file up   *)
(* to vault.cachedRead.                                                    *)
(***************************************************************************)
Triggers == {"ribbon", "command", "timer"}

IsInFlight(run) == run.pc # "done"

\* The calls that have not returned.
InFlight == SelectSeq(runs, IsInFlight)

\* setupAutoClassify: the interval timer is set iff both hold.
TimerLive == settings.autoClassifyEnabled /\ settings.autoClassifyInterval > 0

\* The setInterval timers that are live.
IntervalTimers == {t \in timers : t.kind = "interval"}

SortInbox(trigger, listingThrows) ==
    /\ trigger = "timer" => IntervalTimers # {}
    /\ UNCHANGED <<autoVars, settings, files, folders, now, call>>
    /\ IF GuardRejects
       THEN /\ notice' = "alreadyRunning"
            /\ UNCHANGED <<currentBatch, runs>>
       ELSE IF getNormalizedInboxPath(settings.inboxFolder) = <<>>
       THEN /\ notice' = "noInbox"
            /\ UNCHANGED <<currentBatch, runs>>
       ELSE IF listingThrows
       THEN \* the outer catch (561-568)
            /\ notice' = "error"
            /\ currentBatch' = IF currentBatch # NoBatch
                               THEN [currentBatch EXCEPT !.inProgress = FALSE]
                               ELSE currentBatch
            /\ UNCHANGED runs
       ELSE IF Candidates = <<>>
       THEN /\ notice' = "noFiles"
            /\ UNCHANGED <<currentBatch, runs>>
       ELSE /\ Len(InFlight) < MaxRuns
            /\ notice' = "classifying"
            /\ currentBatch' = newBatch(Candidates)
            /\ runs' = Append(InFlight, newRun(Candidates))

(***************************************************************************)
(* The awaits of classifyFile and moveFileToFolder inside the loop.        *)
(***************************************************************************)
Response(n, wellFormed, text) ==
    [candidates |-> n, wellFormed |-> wellFormed, text |-> text]

RunTexts == {FolderA, FolderB, FolderAB, FolderX, Sentinel, <<" ">> \o FolderB}

FetchOutcomes ==
    {[kind |-> "error", response |-> Response(0, TRUE, <<>>)]}
    \cup {[kind |-> "ok", response |-> Response(0, TRUE, <<>>)],
          [kind |-> "ok", response |-> Response(1, FALSE, <<>>)]}
    \cup {[kind |-> "ok", response |-> Response(1, TRUE, t)] : t \in RunTexts}

Awaiting(r, pc) == r \in 1..Len(runs) /\ runs[r].pc = pc

\* classifyFile 32-54: cachedRead returns or throws; then the credential
\* check, and callGeminiAPI up to fetch.
ReadDone(r, readOk) ==
    /\ Awaiting(r, "read")
    /\ UNCHANGED <<autoVars, settings, files, folders, now, call>>
    /\ IF ~readOk THEN Land(r, "failed", "classify")
       ELSE IF settings.geminiApiKey = <<>> THEN Land(r, "failed", "classify")
       ELSE /\ runs' = [runs EXCEPT ![r].pc = "fetch"]
            /\ UNCHANGED <<currentBatch, notice>>

\* moveFileToFolder 574-578: fullTargetFolder and targetPath of a file.
moveFileToFolder_IntoVaultRoot(path, targetFolder) ==
    [fullTargetFolder |-> targetFolder,
     targetPath |-> normalizePath(targetFolder \o <<"/">> \o fileName(path))]

moveFileToFolder_MissingSlash(path, targetFolder) ==
    LET inboxPath == getNormalizedInboxPath(settings.inboxFolder)
        full == IF inboxPath # <<>> THEN inboxPath \o <<"/">> \o targetFolder
                ELSE targetFolder
    IN  [fullTargetFolder |-> full,
         targetPath |-> normalizePath(full \o fileName(path))]

moveFileToFolder(path, targetFolder) ==
    LET inboxPath == getNormalizedInboxPath(settings.inboxFolder)
        full == IF inboxPath # <<>> THEN inboxPath \o <<"/">> \o targetFolder
                ELSE targetFolder
    IN  [fullTargetFolder |-> full,
         targetPath |-> normalizePath(full \o <<"/">> \o fileName(path))]

\* moveFileToFolder 574-585, up to adapter.exists.
moveTarget(run, targetFolder) ==
    LET move == moveFileToFolder(files[run.files[run.i]].path, targetFolder)
    IN  [run EXCEPT !.pc = "exists",
                    !.targetFolder = targetFolder,
                    !.fullTargetFolder = move.fullTargetFolder,
                    !.targetPath = move.targetPath]

\* result.success && result.targetFolder
Truthy_SuccessAlone(v) == TRUE

Truthy(v) == v # null /\ v # <<>>

\* sendGeminiAPIRequest returns or throws; parseGeminiResponse; then the
\* branch of sortInbox 530-548.
FetchDone(r, fetched) ==
    /\ Awaiting(r, "fetch")
    /\ UNCHANGED <<autoVars, settings, files, folders, now, call>>
    /\ IF fetched.kind # "ok" THEN Land(r, "failed", "classify")
       ELSE LET targetFolder ==
                    parseGeminiResponse(fetched.response, settings.targetFolders)
            IN  IF Truthy(targetFolder)
                THEN /\ runs' = [runs EXCEPT ![r] = moveTarget(@, targetFolder)]
                     /\ UNCHANGED <<currentBatch, notice>>
                ELSE Land(r, "skipped", "none")

\* adapter.exists(fullTargetFolder) returns or throws (584-593).
ExistsDone_SwallowsThrow(r, existsThrows) ==
    /\ Awaiting(r, "exists")
    /\ UNCHANGED <<autoVars, settings, files, folders, now, call>>
    /\ IF existsThrows THEN Land(r, "classified", "move")
       ELSE /\ runs' = [runs EXCEPT ![r].pc =
                            IF normalizePath(runs[r].fullTargetFolder) \in folders
                            THEN "rename" ELSE "create"]
            /\ UNCHANGED <<currentBatch, notice>>

ExistsDone(r, existsThrows) ==
    /\ Awaiting(r, "exists")
    /\ UNCHANGED <<autoVars, settings, files, folders, now, call>>
    /\ IF existsThrows THEN Land(r, "failed", "move")
       ELSE /\ runs' = [runs EXCEPT ![r].pc =
                            IF normalizePath(runs[r].fullTargetFolder) \in folders
                            THEN "rename" ELSE "create"]
            /\ UNCHANGED <<currentBatch, notice>>

\* vault.createFolder(fullTargetFolder) returns or throws (588-593); it
\* throws when the folder exists.
CreateDone(r, createOk) ==
    /\ Awaiting(r, "create")
    /\ UNCHANGED <<autoVars, settings, files, now, call>>
    /\ IF createOk /\ normalizePath(runs[r].fullTargetFolder) \notin folders
       THEN /\ folders' = folders \cup {normalizePath(runs[r].fullTargetFolder)}
            /\ runs' = [runs EXCEPT ![r].pc = "rename"]
            /\ UNCHANGED <<currentBatch, notice>>
       ELSE /\ Land(r, "failed", "move")
            /\ UNCHANGED folders

\* fileManager.renameFile(file, targetPath) returns or throws (596-603); it
\* throws when a file is at targetPath.
RenameDone(r, renameOk) ==
    /\ Awaiting(r, "rename")
    /\ UNCHANGED <<autoVars, settings, folders, now, call>>
    /\ LET f == runs[r].files[runs[r].i]
       IN  IF renameOk /\ \A k \in 1..Len(files) : files[k].path # runs[r].targetPath
           THEN /\ files' = [files EXCEPT ![f].path = runs[r].targetPath]
                /\ Land(r, "classified", "none")
           ELSE /\ Land(r, "failed", "move")
                /\ UNCHANGED files

\* Date.now() advances.
Tick ==
    /\ now < MaxClock
    /\ now' = now + 1
    /\ UNCHANGED <<autoVars, settings, files, folders, currentBatch, runs, notice, call>>

(***************************************************************************)
(* The automatic classification: the interval timer of setupAutoClassify   *)
(* (main.ts 323-363) and the 'create' events of handleFileCreated          *)
(* (366-397).  A timer is a record: its id, kind "interval" or "timeout",  *)
(* its delay ms and, for a timeout, the number of the event that set it.   *)
(***************************************************************************)
\* The id window.setInterval / setTimeout returns: one no live timer has.
freshId(live) ==
    Min({n \in 1..(Cardinality(live) + 1) : \A t \in live : t.id # n})

\* setupAutoClassify (342-363): the id field and the live timers after it.
setupAutoClassify_KeepsOldTimer(intervalId, live) ==
    IF TimerLive
    THEN [id |-> freshId(live),
          timers |-> live \cup {[id |-> freshId(live), kind |-> "interval",
                                  ms |-> settings.autoClassifyInterval * 60 * 1000,
                                  event |-> 0]}]
    ELSE [id |-> 0, timers |-> live]

setupAutoClassify(intervalId, live) ==
    LET cleared == IF intervalId # 0
                   THEN {t \in live : t.id # intervalId}
                   ELSE live
    IN  IF TimerLive
        THEN [id |-> freshId(cleared),
              timers |-> cleared \cup
                  {[id |-> freshId(cleared), kind |-> "interval",
                    ms |-> settings.autoClassifyInterval * 60 * 1000,
                    event |-> 0]}]
        ELSE [id |-> 0, timers |-> cleared]

\* onload (282-321): the settings are loaded; setupAutoClassify; the
\* 'create' handler is registered.
Onload ==
    /\ ~loaded
    /\ loaded' = TRUE
    /\ autoClassifyIntervalId' = setupAutoClassify(autoClassifyIntervalId, timers).id
    /\ timers' = setupAutoClassify(autoClassifyIntervalId, timers).timers
    /\ UNCHANGED <<settings, files, folders, currentBatch, runs, notice, now, call,
                   saving, events, singles>>

\* onunload (323-329); the host removes the registered 'create' handler.
Onunload ==
    /\ loaded
    /\ loaded' = FALSE
    /\ IF autoClassifyIntervalId # 0
       THEN /\ timers' = {t \in timers : t.id # autoClassifyIntervalId}
            /\ autoClassifyIntervalId' = 0
       ELSE UNCHANGED <<timers, autoClassifyIntervalId>>
    /\ UNCHANGED <<settings, files, folders, currentBatch, runs, notice, now, call,
                   saving, events, singles>>

\* The toggle and the slider of the settings tab (settings.ts 157-189): the
\* setting is assigned, then saveSettings awaits saveData.
ChangeAutoClassifyEnabled(value) ==
    /\ loaded /\ saving < MaxSaves
    /\ settings' = [settings EXCEPT !.autoClassifyEnabled = value]
    /\ saving' = saving + 1
    /\ UNCHANGED <<files, folders, currentBatch, runs, notice, now, call,
                   loaded, autoClassifyIntervalId, timers, events, singles>>

ChangeAutoClassifyInterval(value) ==
    /\ loaded /\ saving < MaxSaves
    /\ settings' = [settings EXCEPT !.autoClassifyInterval = value]
    /\ saving' = saving + 1
    /\ UNCHANGED <<files, folders, currentBatch, runs, notice, now, call,
                   loaded, autoClassifyIntervalId, timers, events, singles>>

\* saveSettings after saveData (335-339): setupAutoClassify, unless saveData
\* rejected.
SaveSettingsDone(saved) ==
    /\ saving > 0
    /\ saving' = saving - 1
    /\ IF saved
       THEN /\ autoClassifyIntervalId' =
                   setupAutoClassify(autoClassifyIntervalId, timers).id
            /\ timers' = setupAutoClassify(autoClassifyIntervalId, timers).timers
       ELSE UNCHANGED <<autoClassifyIntervalId, timers>>
    /\ UNCHANGED <<settings, files, folders, currentBatch, runs, notice, now, call,
                   loaded, events, singles>>

\* What the vault may announce as created: notes, another file, a folder.
TFile(path, extension) == [isTFile |-> TRUE, path |-> path, extension |-> extension]

TFolder(path) == [isTFile |-> FALSE, path |-> path, extension |-> ""]

CreatedObjects ==
    {TFile(Inbox \o <<"/", "a">>, "md"), TFile(Inbox \o <<"/", "b">>, "md"),
     TFile(Inbox \o <<"/", "a">>, "png"),
     TFile(Inbox \o <<"/">> \o FolderA \o <<"/", "a">>, "md"),
     TFile(<<"r">>, "md"), TFolder(Inbox \o <<"/", "f">>)}

\* handleFileCreated 368-390: the three tests an event has to pass.
passesChecks_AnyExtension(file) ==
    /\ file.isTFile
    /\ isFileInInboxFolder(settings.inboxFolder, file.path)
    /\ settings.autoClassifyEnabled

passesChecks(file) ==
    /\ file.isTFile /\ file.extension = "md"
    /\ isFileInInboxFolder(settings.inboxFolder, file.path)
    /\ settings.autoClassifyEnabled

\* handleFileCreated (366-397): setTimeout of 1000 ms, or nothing.
HandleFileCreated(file) ==
    /\ loaded /\ Len(events) < MaxEvents
    /\ events' = Append(events, [file |-> file,
                                 autoClassifyEnabled |-> settings.autoClassifyEnabled,
                                 inboxFolder |-> settings.inboxFolder])
    /\ IF passesChecks(file)
       THEN timers' = timers \cup {[id |-> freshId(timers), kind |-> "timeout",
                                    ms |-> 1000, event |-> Len(events) + 1]}
       ELSE UNCHANGED timers
    /\ UNCHANGED <<settings, files, folders, currentBatch, runs, notice, now, call,
                   loaded, autoClassifyIntervalId, saving, singles>>

\* A call of classifySingleFile: its file, where it is suspended, what
\* moveFileToFolder computed, and how the call ended.
newSingle(t) ==
    [file |-> events[t.event].file, event |-> t.event, pc |-> "read",
     targetFolder |-> null, fullTargetFolder |-> null, targetPath |-> null,
     outcome |-> "none"]

\* The timeout fires: classifySingleFile (439-444) shows its Notice and
\* classifyFile runs up to vault.cachedRead.
TimeoutFires_Gated(t) ==
    /\ ~GuardRejects
    /\ t \in timers /\ t.kind = "timeout"
    /\ timers' = timers \ {t}
    /\ singles' = Append(singles, newSingle(t))
    /\ notice' = "classifyingFile"
    /\ UNCHANGED <<settings, files, folders, currentBatch, runs, now, call,
                   loaded, autoClassifyIntervalId, saving, events>>

TimeoutFires(t) ==
    /\ t \in timers /\ t.kind = "timeout"
    /\ timers' = timers \ {t}
    /\ singles' = Append(singles, newSingle(t))
    /\ notice' = "classifyingFile"
    /\ UNCHANGED <<settings, files, folders, currentBatch, runs, now, call,
                   loaded, autoClassifyIntervalId, saving, events>>

(***************************************************************************)
(* classifySingleFile after its first await (main.ts 444-476).  The file   *)
(* of the event is a note of the vault: file.note is its index in files.   *)
(* No step reads or assigns this.currentBatch.                             *)
(***************************************************************************)
VaultFile(k) ==
    [isTFile |-> TRUE, path |-> files[k].path, extension |-> "md", note |-> k]

SingleAwaiting(s, pc) == s \in 1..Len(singles) /\ singles[s].pc = pc

\* The call returns: the Notice it shows last, and how it ended.
singleEnds(single, outcome) ==
    [single EXCEPT !.pc = "done", !.outcome = outcome, !.targetFolder = null,
                   !.fullTargetFolder = null, !.targetPath = null]

\* classifyFile 32-54 inside classifySingleFile: cachedRead returns or
\* throws, the credential check; a failure is the Notice of line 470.
SingleReadDone(s, readOk) ==
    /\ SingleAwaiting(s, "read")
    /\ UNCHANGED <<settings, files, folders, currentBatch, runs, now, call,
                   loaded, autoClassifyIntervalId, timers, saving, events>>
    /\ IF ~readOk \/ settings.geminiApiKey = <<>>
       THEN /\ singles' = [singles EXCEPT ![s] = singleEnds(@, "failed")]
            /\ notice' = "classifyError"
       ELSE /\ singles' = [singles EXCEPT ![s].pc = "fetch"]
            /\ UNCHANGED notice

\* The request returns or throws; parseGeminiResponse; the branch of
\* lines 447-471, and moveFileToFolder up to adapter.exists.
SingleFetchDone(s, fetched) ==
    /\ SingleAwaiting(s, "fetch")
    /\ UNCHANGED <<settings, files, folders, currentBatch, runs, now, call,
                   loaded, autoClassifyIntervalId, timers, saving, events>>
    /\ IF fetched.kind # "ok"
       THEN /\ singles' = [singles EXCEPT ![s] = singleEnds(@, "failed")]
            /\ notice' = "classifyError"
       ELSE LET targetFolder ==
                    parseGeminiResponse(fetched.response, settings.targetFolders)
                move == moveFileToFolder(files[singles[s].file.note].path,
                                         targetFolder)
            IN  IF Truthy(targetFolder)
                THEN /\ singles' = [singles EXCEPT
                            ![s].pc = "exists",
                            ![s].targetFolder = targetFolder,
                            ![s].fullTargetFolder = move.fullTargetFolder,
                            ![s].targetPath = move.targetPath]
                     /\ UNCHANGED notice
                ELSE /\ singles' = [singles EXCEPT ![s] = singleEnds(@, "skipped")]
                     /\ notice' = "notMoved"

\* adapter.exists returns or throws; a throw reaches the catch of 457-460.
SingleExistsDone(s, existsThrows) ==
    /\ SingleAwaiting(s, "exists")
    /\ UNCHANGED <<settings, files, folders, currentBatch, runs, now, call,
                   loaded, autoClassifyIntervalId, timers, saving, events>>
    /\ IF existsThrows
       THEN /\ singles' = [singles EXCEPT ![s] = singleEnds(@, "moveFailed")]
            /\ notice' = "moveError"
       ELSE /\ singles' = [singles EXCEPT ![s].pc =
                            IF normalizePath(singles[s].fullTargetFolder) \in folders
                            THEN "rename" ELSE "create"]
            /\ UNCHANGED notice

\* vault.createFolder returns or throws.
SingleCreateDone(s, createOk) ==
    /\ SingleAwaiting(s, "create")
    /\ UNCHANGED <<settings, files, currentBatch, runs, now, call,
                   loaded, autoClassifyIntervalId, timers, saving, events>>
    /\ IF createOk /\ normalizePath(singles[s].fullTargetFolder) \notin folders
       THEN /\ folders' = folders \cup {normalizePath(singles[s].fullTargetFolder)}
            /\ singles' = [singles EXCEPT ![s].pc = "rename"]
            /\ UNCHANGED notice
       ELSE /\ singles' = [singles EXCEPT ![s] = singleEnds(@, "moveFailed")]
            /\ notice' = "moveError"
            /\ UNCHANGED folders

\* fileManager.renameFile returns or throws; the Notice of line 451.
SingleRenameDone(s, renameOk) ==
    /\ SingleAwaiting(s, "rename")
    /\ UNCHANGED <<settings, folders, currentBatch, runs, now, call,
                   loaded, autoClassifyIntervalId, timers, saving, events>>
    /\ IF renameOk /\ \A k \in 1..Len(files) : files[k].path # singles[s].targetPath
       THEN /\ files' = [files EXCEPT ![singles[s].file.note].path =
                                          singles[s].targetPath]
            /\ singles' = [singles EXCEPT ![s] = singleEnds(@, "moved")]
            /\ notice' = "classifiedFile"
       ELSE /\ singles' = [singles EXCEPT ![s] = singleEnds(@, "moveFailed")]
            /\ notice' = "moveError"
            /\ UNCHANGED files

\* The plugin object after construction, with the settings that loadData
\* will give.
AutoInit ==
    /\ settings \in
          {[inboxFolder |-> w, targetFolders |-> <<FolderA, FolderB>>,
            geminiApiKey |-> <<"k">>, autoClassifyEnabled |-> e,
            autoClassifyInterval |-> m] :
              w \in {<<"N">>, <<>>}, e \in BOOLEAN, m \in {0, 5}}
    /\ files = <<>>
    /\ folders = {}
    /\ currentBatch = [id |-> 0, tasks |-> <<>>, summary |-> newSummary(0),
                       inProgress |-> FALSE, startTime |-> 0]
    /\ runs = <<>>
    /\ notice = "none"
    /\ now = 0
    /\ call = [fn |-> "none"]
    /\ loaded = FALSE
    /\ autoClassifyIntervalId = 0
    /\ timers = {}
    /\ saving = 0
    /\ events = <<>>
    /\ singles = <<>>

AutoNext ==
    \/ Onload
    \/ Onunload
    \/ \E value \in BOOLEAN : ChangeAutoClassifyEnabled(value)
    \/ \E value \in {0, 5} : ChangeAutoClassifyInterval(value)
    \/ \E saved \in BOOLEAN : SaveSettingsDone(saved)
    \/ \E file \in CreatedObjects : HandleFileCreated(file)
    \/ \E t \in timers : TimeoutFires(t)

SpecAuto == AutoInit /\ [][AutoNext]_vars

(***************************************************************************)
(* The initial state: the plugin is loaded, no batch exists.               *)
(***************************************************************************)
InboxFile(k) == [path |-> Inbox \o <<"/", NameChars[k]>>]

InitialVaults ==
    {[k \in 1..(n + 2) |->
        IF k <= n THEN InboxFile(k)
        ELSE IF k = n + 1 THEN [path |-> Inbox \o <<"/">> \o FolderA \o <<"/", NameChars[1]>>]
        ELSE [path |-> <<"r">>]] : n \in 0..MaxFiles}

InitialSettings ==
    {[inboxFolder |-> w, targetFolders |-> <<FolderA, FolderB>>,
      geminiApiKey |-> k, autoClassifyEnabled |-> a[1],
      autoClassifyInterval |-> a[2],
      \* classificationOptions.highAccuracyMode: false by default, and no
      \* control of the settings tab changes it
      highAccuracyMode |-> FALSE] :
        w \in {Inbox, <<>>}, k \in {<<"k">>, <<>>},
        a \in {<<FALSE, 5>>, <<TRUE, 5>>}}

NoCall == [fn |-> "none"]

Init ==
    /\ settings \in InitialSettings
    /\ files \in InitialVaults
    /\ folders = {Inbox, Inbox \o <<"/">> \o FolderA}
    /\ currentBatch = NoBatch
    /\ runs = <<>>
    /\ notice = "none"
    /\ now = 0
    /\ call = NoCall
    \* onload has run
    /\ loaded = TRUE
    /\ autoClassifyIntervalId = setupAutoClassify(0, {}).id
    /\ timers = setupAutoClassify(0, {}).timers
    /\ saving = 0
    /\ events = <<>>
    /\ singles = <<>>

Next ==
    \/ \E trigger \in Triggers, listingThrows \in BOOLEAN :
          SortInbox(trigger, listingThrows)
    \/ \E r \in 1..MaxRuns, readOk \in BOOLEAN : ReadDone(r, readOk)
    \/ \E r \in 1..MaxRuns, fetched \in FetchOutcomes : FetchDone(r, fetched)
    \/ \E r \in 1..MaxRuns, existsThrows \in BOOLEAN : ExistsDone(r, existsThrows)
    \/ \E r \in 1..MaxRuns, createOk \in BOOLEAN : CreateDone(r, createOk)
    \/ \E r \in 1..MaxRuns, renameOk \in BOOLEAN : RenameDone(r, renameOk)
    \/ Tick

Spec == Init /\ [][Next]_vars

(***************************************************************************)
(* A bulk run together with the 'create' events of the notes of the vault  *)
(* and the calls of classifySingleFile they schedule.                      *)
(***************************************************************************)
RaceFetchOutcomes ==
    {[kind |-> "error", response |-> Response(0, TRUE, <<>>)]}
    \cup {[kind |-> "ok", response |-> Response(1, TRUE, t)] :
              t \in {FolderA, FolderB, Sentinel}}

RaceInit ==
    /\ settings = [inboxFolder |-> Inbox, targetFolders |-> <<FolderA, FolderB>>,
                   geminiApiKey |-> <<"k">>, autoClassifyEnabled |-> TRUE,
                   autoClassifyInterval |-> 0, highAccuracyMode |-> FALSE]
    /\ files = <<InboxFile(1)>>
    /\ folders = {Inbox, Inbox \o <<"/">> \o FolderA}
    /\ currentBatch = NoBatch
    /\ runs = <<>>
    /\ notice = "none"
    /\ now = 0
    /\ call = NoCall
    /\ loaded = TRUE
    /\ autoClassifyIntervalId = 0
    /\ timers = {}
    /\ saving = 0
    /\ events = <<>>
    /\ singles = <<>>

\* The steps of the calls of classifySingleFile.
SingleStep ==
    \/ \E t \in timers : TimeoutFires(t)
    \/ \E s \in 1..MaxEvents, readOk \in BOOLEAN : SingleReadDone(s, readOk)
    \/ \E s \in 1..MaxEvents, fetched \in RaceFetchOutcomes : SingleFetchDone(s, fetched)
    \/ \E s \in 1..MaxEvents, existsThrows \in BOOLEAN : SingleExistsDone(s, existsThrows)
    \/ \E s \in 1..MaxEvents, createOk \in BOOLEAN : SingleCreateDone(s, createOk)
    \/ \E s \in 1..MaxEvents, renameOk \in BOOLEAN : SingleRenameDone(s, renameOk)

\* The steps of sortInbox.
BulkStep ==
    \/ \E trigger \in {"ribbon", "command"} : SortInbox(trigger, FALSE)
    \/ \E r \in 1..MaxRuns, readOk \in BOOLEAN : ReadDone(r, readOk)
    \/ \E r \in 1..MaxRuns, fetched \in RaceFetchOutcomes : FetchDone(r, fetched)
    \/ \E r \in 1..MaxRuns, existsThrows \in BOOLEAN : ExistsDone(r, existsThrows)
    \/ \E r \in 1..MaxRuns, createOk \in BOOLEAN : CreateDone(r, createOk)
    \/ \E r \in 1..MaxRuns, renameOk \in BOOLEAN : RenameDone(r, renameOk)

RaceNext ==
    \/ \E k \in 1..Len(files) :
          \* one event at a time
          /\ timers = {} /\ \A s \in 1..Len(singles) : singles[s].pc = "done"
          /\ HandleFileCreated(VaultFile(k))
    \/ SingleStep
    \/ BulkStep

SpecRace == RaceInit /\ [][RaceNext]_vars

(***************************************************************************)
(* The bulk run over a watch folder that holds three notes; the folder of  *)
(* the first target exists and that of the second does not.                *)
(***************************************************************************)
ThreeNotesInit ==
    /\ settings = [inboxFolder |-> Inbox, targetFolders |-> <<FolderA, FolderB>>,
                   geminiApiKey |-> <<"k">>, autoClassifyEnabled |-> FALSE,
                   autoClassifyInterval |-> 5, highAccuracyMode |-> FALSE]
    /\ files = <<InboxFile(1), InboxFile(2), InboxFile(3)>>
    /\ folders = {Inbox, Inbox \o <<"/">> \o FolderA}
    /\ currentBatch = NoBatch
    /\ runs = <<>>
    /\ notice = "none"
    /\ now = 0
    /\ call = NoCall
    /\ loaded = TRUE
    /\ autoClassifyIntervalId = 0
    /\ timers = {}
    /\ saving = 0
    /\ events = <<>>
    /\ singles = <<>>

SpecThreeNotes == ThreeNotesInit /\ [][Next]_vars

\* An awaited promise of classifySingleFile settles, and a timeout fires.
FairRace == SpecRace /\ WF_vars(SingleStep)

(***************************************************************************)
(* The pure functions, applied to inputs drawn from bounded sets: one call *)
(* per behaviour, its arguments chosen initially.                          *)
(***************************************************************************)
RECURSIVE SeqsUpTo(_, _)
SeqsUpTo(S, n) ==
    IF n = 0 THEN {<<>>}
    ELSE LET T == SeqsUpTo(S, n - 1)
         IN  T \cup {Append(t, x) : t \in T, x \in S}

Range(q) == {q[k] : k \in 1..Len(q)}

NoDuplicates(q) == \A j, k \in 1..Len(q) : q[j] = q[k] => j = k

\* Model answers: up to MaxPieces pieces, each a folder name, a blank, some
\* other character or the sentinel text.
Pieces == {FolderA, FolderB, <<" ">>, <<"x">>, Sentinel}

Texts == {Concat(q) : q \in SeqsUpTo(Pieces, MaxPieces)}

FolderNames == {FolderA, FolderAB, FolderB}

\* settings.targetFolders: the settings tab refuses an empty name and a
\* name already in the list (settings.ts 238-246).
TargetFolderLists == {q \in SeqsUpTo(FolderNames, MaxFolders) : NoDuplicates(q)}

SingleResponses ==
    {Response(0, TRUE, <<>>), Response(1, FALSE, <<>>)}
    \cup {Response(1, TRUE, t) : t \in Texts}

ParseCalls ==
    {[fn |-> "parseGeminiResponse", response |-> resp, targetFolders |-> fl,
      done |-> FALSE, threw |-> FALSE, result |-> null] :
        resp \in SingleResponses, fl \in TargetFolderLists}

\* Batch answers: prose, then an array of up to MaxItems elements whose
\* brackets may be missing, then prose.
BatchIds == {fileId(1), fileId(2), fileId(9)}

BatchFolders == {FolderA, FolderX, Sentinel, undefined}

Elements ==
    {Obj(id, f) : id \in BatchIds, f \in BatchFolders}
    \cup {Tok("null"), Tok("prose")}

Prefixes ==
    {<<>>, <<Tok("prose")>>,
     <<Tok("["), Obj(fileId(2), FolderA), Tok("]"), Tok("prose")>>}

BatchTexts ==
    {pre \o open \o body \o close \o post :
        pre \in Prefixes,
        open \in {<<>>, <<Tok("[")>>},
        body \in SeqsUpTo(Elements, MaxItems),
        close \in {<<>>, <<Tok("]")>>},
        post \in {<<>>, <<Tok("prose")>>}}

BatchPaths == <<Inbox \o <<"/", NameChars[1]>>, Inbox \o <<"/", NameChars[2]>>>>

BatchCall(key, readOk, fetched) ==
    [fn |-> "batchClassifyFiles", paths |-> BatchPaths,
     targetFolders |-> <<FolderA, FolderB>>, geminiApiKey |-> key,
     readOk |-> readOk, fetched |-> fetched, done |-> FALSE, threw |-> FALSE,
     result |-> emptyMap]

BatchCalls ==
    {BatchCall(<<"k">>, TRUE, [kind |-> "ok", response |-> Response(1, TRUE, t)]) :
        t \in BatchTexts}
    \cup {BatchCall(key, readOk, [kind |-> kind, response |-> resp]) :
            key \in {<<"k">>, <<>>}, readOk \in BOOLEAN, kind \in {"ok", "error"},
            resp \in {Response(0, TRUE, <<>>), Response(1, FALSE, <<>>),
                      Response(1, TRUE, <<Tok("["), Obj(fileId(1), FolderA), Tok("]")>>)}}

\* settings.inboxFolder as typed: a folder path, blanks around it, and one
\* trailing separator.
InboxFolderInputs ==
    {lead \o base \o sep \o trail :
        lead \in {<<>>, <<" ">>},
        base \in {<<>>, <<"N">>, <<"N", "a">>, <<"N", "/", "N">>},
        sep \in {<<>>, <<"/">>, <<"\\">>},
        trail \in {<<>>, <<" ">>}}

\* file.path: the vault keeps paths normalized.
VaultPaths ==
    {q \in SeqsUpTo({"N", "a", "/"}, MaxPathLen) : q # <<>> /\ normalizePath(q) = q}

InboxCalls ==
    {[fn |-> "isFileInInboxFolder", inboxFolder |-> w, path |-> q,
      done |-> FALSE, result |-> FALSE] :
        w \in InboxFolderInputs, q \in VaultPaths}

\* The slider of maxContentLength (settings.ts 277): 100 to 3000 by 100.
sliderMin == 100

sliderMax == 3000

sliderStep == 100

SliderValues ==
    {v \in sliderMin..sliderMax : (v - sliderMin) % sliderStep = 0}

\* A note's content of n characters.
Content(n) == [k \in 1..n |-> k]

\* Contents one character shorter than a cap, as long, and one longer.
AroundCap(cap) == {Content(cap - 1), Content(cap), Content(cap + 1)}

ClassifyFetched ==
    {[kind |-> k, response |-> Response(0, TRUE, <<>>)] :
        k \in {"timeout", "status", "transport", "ok"}}
    \cup {[kind |-> "ok", response |-> Response(1, FALSE, <<>>)]}
    \cup {[kind |-> "ok", response |-> Response(1, TRUE, t)] :
            t \in {FolderA, FolderX, Sentinel}}

ClassifyCall(content, readOk, key, maxContentLength, fetched) ==
    [fn |-> "classifyFile", content |-> content, readOk |-> readOk,
     geminiApiKey |-> key, maxContentLength |-> maxContentLength,
     targetFolders |-> <<FolderA, FolderB>>, fetched |-> fetched,
     done |-> FALSE, threw |-> FALSE, result |-> null, requests |-> <<>>]

ClassifyCalls ==
    UNION {{ClassifyCall(c, TRUE, <<"k">>, m,
                         [kind |-> "ok", response |-> Response(1, TRUE, FolderA)]) :
               c \in AroundCap(singleMaxLength(m))} : m \in SliderValues \cup {0}}
    \cup {ClassifyCall(c, readOk, key, sliderMin, fetched) :
            c \in {Content(0), Content(sliderMin + 1)}, readOk \in BOOLEAN,
            key \in {<<"k">>, <<>>}, fetched \in ClassifyFetched}

FileDataCalls ==
    {[fn |-> "batchFileData", content |-> c, index |-> 0, done |-> FALSE,
      result |-> null] : c \in AroundCap(batchMaxLength) \cup {Content(0)}}

ApplyClassifyFile ==
    /\ call.fn = "classifyFile" /\ ~call.done
    /\ LET returned == classifyFile(call.content, call.readOk, call.geminiApiKey,
                           call.maxContentLength, call.targetFolders, call.fetched)
       IN  call' = [call EXCEPT !.done = TRUE, !.threw = returned.threw,
                                !.result = returned.result,
                                !.requests = returned.requests]
    /\ UNCHANGED <<autoVars, settings, files, folders, currentBatch, runs, notice, now>>

ApplyBatchFileData ==
    /\ call.fn = "batchFileData" /\ ~call.done
    /\ call' = [call EXCEPT !.done = TRUE,
                            !.result = batchFileData(call.content, call.index)]
    /\ UNCHANGED <<autoVars, settings, files, folders, currentBatch, runs, notice, now>>

ApplyParseGeminiResponse ==
    /\ call.fn = "parseGeminiResponse" /\ ~call.done
    /\ call' = [call EXCEPT
           !.done = TRUE,
           !.threw = parseGeminiResponseCall(call.response, call.targetFolders).threw,
           !.result = parseGeminiResponse(call.response, call.targetFolders)]
    /\ UNCHANGED <<autoVars, settings, files, folders, currentBatch, runs, notice, now>>

ApplyBatchClassifyFiles ==
    /\ call.fn = "batchClassifyFiles" /\ ~call.done
    /\ call' = [call EXCEPT
           !.done = TRUE,
           !.threw = batchClassifyFilesCall(call.paths, call.targetFolders,
                         call.geminiApiKey, call.readOk, call.fetched).threw,
           !.result = batchClassifyFiles(call.paths, call.targetFolders,
                         call.geminiApiKey, call.readOk, call.fetched)]
    /\ UNCHANGED <<autoVars, settings, files, folders, currentBatch, runs, notice, now>>

ApplyIsFileInInboxFolder ==
    /\ call.fn = "isFileInInboxFolder" /\ ~call.done
    /\ call' = [call EXCEPT !.done = TRUE,
                            !.result = isFileInInboxFolder(call.inboxFolder, call.path)]
    /\ UNCHANGED <<autoVars, settings, files, folders, currentBatch, runs, notice, now>>

PureInit ==
    /\ settings = [inboxFolder |-> Inbox, targetFolders |-> <<FolderA, FolderB>>,
                   geminiApiKey |-> <<"k">>, autoClassifyEnabled |-> FALSE,
                   autoClassifyInterval |-> 0]
    /\ files = <<>>
    /\ folders = {}
    /\ currentBatch = NoBatch
    /\ runs = <<>>
    /\ notice = "none"
    /\ now = 0
    /\ loaded = FALSE
    /\ autoClassifyIntervalId = 0
    /\ timers = {}
    /\ saving = 0
    /\ events = <<>>
    /\ singles = <<>>
    /\ \/ call \in ParseCalls
       \/ call \in BatchCalls
       \/ call \in InboxCalls
       \/ call \in ClassifyCalls
       \/ call \in FileDataCalls

PureNext ==
    \/ ApplyParseGeminiResponse
    \/ ApplyBatchClassifyFiles
    \/ ApplyIsFileInInboxFolder
    \/ ApplyClassifyFile
    \/ ApplyBatchFileData

SpecPure == PureInit /\ [][PureNext]_vars

(***************************************************************************)
(* classifyFileBatch (classify.ts 252-302), called without a progress      *)
(* callback.  The call is the record call: n tasks, numbered 1..n in task  *)
(* order; i is the loop variable; pending holds the tasks whose            *)
(* classifyFile promise is not settled, settled the results of the chunk,  *)
(* results the list returned, pauses the setTimeout pauses begun.          *)
(***************************************************************************)
batchSize == 5

pauseMs == 2000

\* tasks.slice(i, i + batchSize)
chunkOf(i, n) == {k \in 1..n : i < k /\ k <= i + batchSize}

\* if (i + batchSize < tasks.length)
pauseNeeded_AfterEveryChunk(i, n) == i + batchSize <= n

pauseNeeded(i, n) == i + batchSize < n

\* await Promise.all(batchPromises): every promise of the chunk is settled
\* (classifyFile never rejects).
promiseAllResolved_OnFirst(c) == c.pending # chunkOf(c.i, c.n)

promiseAllResolved(c) == c.pending = {}

\* The loop test and, for a further chunk, batchTasks.map(classifyFile): the
\* classifyFile calls of the chunk start; else `return results`.
loopStep(c) ==
    IF c.i < c.n
    THEN [c EXCEPT !.pc = "join",
                   !.pending = @ \cup chunkOf(c.i, c.n),
                   !.started = @ \cup chunkOf(c.i, c.n),
                   !.settled = emptyMap]
    ELSE [c EXCEPT !.pc = "done"]

\* batchResults: the results of the chunk, in task order.
batchResults(c) ==
    LET order == [j \in 1..Cardinality(chunkOf(c.i, c.n)) |-> c.i + j]
        IsSettled(k) == k \in DOMAIN c.settled
        done == SelectSeq(order, IsSettled)
    IN  [j \in 1..Len(done) |-> c.settled[done[j]]]

BatchCallsOfTasks ==
    {[fn |-> "classifyFileBatch", n |-> n, i |-> 0, pc |-> "called",
      pending |-> {}, started |-> {}, settled |-> emptyMap, results |-> <<>>,
      pauses |-> <<>>] : n \in 0..MaxTasks}

InBatch(pc) == call.fn = "classifyFileBatch" /\ call.pc = pc

\* The call runs to its first await.
ClassifyFileBatch ==
    /\ InBatch("called")
    /\ call' = loopStep(call)
    /\ UNCHANGED <<autoVars, settings, files, folders, currentBatch, runs, notice, now>>

\* One classifyFile of the chunk returns its result.
ClassifyFileSettles(k, success) ==
    /\ call.fn = "classifyFileBatch"
    /\ k \in call.pending
    /\ call' = [call EXCEPT
           !.pending = @ \ {k},
           !.settled = [t \in (DOMAIN @) \cup {k} |->
                           IF t = k THEN [file |-> k, success |-> success]
                           ELSE @[t]]]
    /\ UNCHANGED <<autoVars, settings, files, folders, currentBatch, runs, notice, now>>

\* Promise.all resolves (281-294): the results are pushed; then the pause
\* begins, or the loop goes on.
PromiseAllResolves ==
    /\ InBatch("join")
    /\ promiseAllResolved(call)
    /\ LET pushed == [call EXCEPT !.results = @ \o batchResults(call)]
       IN  call' = IF pauseNeeded(call.i, call.n)
                   THEN [pushed EXCEPT !.pc = "pause",
                                       !.pauses = Append(@, [ms |-> pauseMs,
                                                             after |-> call.i + batchSize])]
                   ELSE loopStep([pushed EXCEPT !.i = @ + batchSize])
    /\ UNCHANGED <<autoVars, settings, files, folders, currentBatch, runs, notice, now>>

\* The timer of the pause fires (293): i += batchSize and the next iteration.
PauseEnds ==
    /\ InBatch("pause")
    /\ call' = loopStep([call EXCEPT !.i = @ + batchSize])
    /\ UNCHANGED <<autoVars, settings, files, folders, currentBatch, runs, notice, now>>

ChunksInit ==
    /\ settings = [inboxFolder |-> Inbox, targetFolders |-> <<FolderA, FolderB>>,
                   geminiApiKey |-> <<"k">>, autoClassifyEnabled |-> FALSE,
                   autoClassifyInterval |-> 0]
    /\ files = <<>>
    /\ folders = {}
    /\ currentBatch = NoBatch
    /\ runs = <<>>
    /\ notice = "none"
    /\ now = 0
    /\ loaded = FALSE
    /\ autoClassifyIntervalId = 0
    /\ timers = {}
    /\ saving = 0
    /\ events = <<>>
    /\ singles = <<>>
    /\ call \in BatchCallsOfTasks

ChunksNext ==
    \/ ClassifyFileBatch
    \/ \E k \in 1..MaxTasks, success \in BOOLEAN : ClassifyFileSettles(k, success)
    \/ PromiseAllResolves
    \/ PauseEnds

SpecChunks == ChunksInit /\ [][ChunksNext]_vars

(***************************************************************************)
(* Properties of the pure functions, under SpecPure.                       *)
(***************************************************************************)
Parsed == call.fn = "parseGeminiResponse" /\ call.done

BatchParsed == call.fn = "batchClassifyFiles" /\ call.done

MembershipDecided == call.fn = "isFileInInboxFolder" /\ call.done

\* The trimmed text of a parsed response that has one.
HasText == call.response.candidates > 0 /\ call.response.wellFormed

ParsedText == trim(call.response.text)

\* The folders of targetFolders that the text equals, ends with or contains.
Matching(text, targetFolders) ==
    {k \in 1..Len(targetFolders) :
        \/ text = targetFolders[k]
        \/ endsWith(text, targetFolders[k])
        \/ includes(text, targetFolders[k])}

\* C7: every decision of parseGeminiResponse and every value of the map of
\* batchClassifyFiles is null or a member of targetFolders.
C7_DecisionsAreConfigured ==
    /\ Parsed =>
          call.result = null \/ call.result \in Range(call.targetFolders)
    /\ BatchParsed =>
          \A p \in DOMAIN call.result :
              call.result[p] = null \/ call.result[p] \in Range(call.targetFolders)

\* A batch answer naming folder X, outside targetFolders, for file_1 gave
\* null for that file; and a single answer gave a folder.
C7_Witness ==
    /\ BatchParsed
    /\ call.fetched.response.text =
          <<Tok("prose"), Tok("["), Obj(fileId(1), FolderX), Tok("]")>>
    /\ call.result = [p \in {BatchPaths[1]} |-> null]

\* C8: isFileInInboxFolder is true exactly for the direct children of the
\* watch folder W (the setting trimmed, one trailing separator stripped);
\* with W empty, exactly for the paths without '/'.
WatchFolder(inboxFolder) ==
    LET t == trim(inboxFolder)
    IN  IF t # <<>> /\ IsSep(t[Len(t)]) THEN Slice(t, 1, Len(t) - 1) ELSE t

DirectChild(W, path) ==
    IF W = <<>> THEN ~includes(path, <<"/">>)
    ELSE /\ startsWith(path, W \o <<"/">>)
         /\ ~includes(Slice(path, Len(W) + 2, Len(path)), <<"/">>)

C8_DirectChildrenExactly ==
    MembershipDecided =>
        call.result = DirectChild(WatchFolder(call.inboxFolder), call.path)

\* C9: when the trimmed text equals a folder f of targetFolders, or is
\* longer and ends with f, parseGeminiResponse returns f (stated for a text
\* without the sentinel, which C11 gives precedence).
C9_ExactOrSuffixReturnsFolder ==
    (Parsed /\ HasText /\ ~includes(ParsedText, Sentinel)) =>
        \A f \in Range(call.targetFolders) :
            (ParsedText = f \/ endsWith(ParsedText, f)) => call.result = f

\* C10 as stated: when the text matches several folders, the result is the
\* matching folder of smallest index.
C10_FirstDeclaredWins_Original ==
    (Parsed /\ HasText /\ Cardinality(Matching(ParsedText, call.targetFolders)) > 1) =>
        call.result = call.targetFolders[Min(Matching(ParsedText, call.targetFolders))]

\* C10 as amended: the same, for a text that does not contain the sentinel;
\* a text that contains it gives null whatever folders it matches.
C10_FirstDeclaredWins ==
    (Parsed /\ HasText /\ Cardinality(Matching(ParsedText, call.targetFolders)) > 1) =>
        IF includes(ParsedText, Sentinel)
        THEN call.result = null
        ELSE call.result = call.targetFolders[Min(Matching(ParsedText, call.targetFolders))]

\* The text "BA" with folders [A, B]: B occurs first in the text, A is
\* declared first and is returned.
C10_Witness ==
    /\ Parsed /\ HasText
    /\ call.targetFolders = <<FolderA, FolderB>>
    /\ ParsedText = FolderB \o FolderA
    /\ call.result = FolderA

\* C11: whenever the trimmed text equals or contains the sentinel text,
\* parseGeminiResponse returns null, also when the text contains a folder
\* name of targetFolders: the sentinel test comes before the folder loop.
C11_SentinelTakesPrecedence ==
    (Parsed /\ HasText /\ (ParsedText = Sentinel \/ includes(ParsedText, Sentinel))) =>
        call.result = null

\* The text is folder A followed by the sentinel, A is configured, and the
\* result is null.
C11_Witness ==
    /\ Parsed /\ HasText
    /\ ParsedText = FolderA \o Sentinel
    /\ FolderA \in Range(call.targetFolders)
    /\ call.result = null

\* C12: parseGeminiResponse never throws to its caller; a response without
\* candidates, a first candidate without content or parts, and a text that
\* matches no folder each give null as a value.
C12_ParseNeverThrows ==
    Parsed =>
        /\ ~call.threw
        /\ call.response.candidates = 0 => call.result = null
        /\ (call.response.candidates > 0 /\ ~call.response.wellFormed) =>
               call.result = null
        /\ (HasText /\ Matching(ParsedText, call.targetFolders) = {}) =>
               call.result = null

\* A first candidate without content was parsed: null, nothing thrown.
C12_Witness ==
    /\ Parsed
    /\ call.response.candidates > 0 /\ ~call.response.wellFormed
    /\ ~call.threw
    /\ call.result = null

\* The batch answer of the call, when the request returned one with a text.
BatchAnswered ==
    /\ call.geminiApiKey # <<>> /\ call.readOk /\ call.fetched.kind = "ok"
    /\ call.fetched.response.candidates > 0 /\ call.fetched.response.wellFormed

BatchText == call.fetched.response.text

\* The elements of the array located in the answer.
BatchItems == Slice(jsonMatch(BatchText), 2, Len(jsonMatch(BatchText)) - 1)

\* The decision the last item with the id of file n stands for.
LastItemFor(items, n) ==
    items[Max({k \in 1..Len(items) : items[k].id = fileId(n)})]

DecisionOf(item, targetFolders) ==
    IF item.folder \in Range(targetFolders) THEN item.folder ELSE null

\* C13: batchClassifyFiles never throws.  An empty credential, a failed or
\* timed-out request, a response without candidates, a text without a
\* bracket-delimited array and an array that does not parse each give the
\* empty map; when the array parses and holds objects only, the map has an
\* entry exactly for the files whose id occurs, decided by the items with
\* that id alone: an item with an unknown id changes nothing.
C13_BatchNeverThrows ==
    BatchParsed =>
        /\ ~call.threw
        /\ call.geminiApiKey = <<>> => call.result = emptyMap
        /\ call.fetched.kind # "ok" => call.result = emptyMap
        /\ call.fetched.response.candidates = 0 => call.result = emptyMap
        /\ (BatchAnswered /\ ~hasJsonMatch(BatchText)) => call.result = emptyMap
        /\ (BatchAnswered /\ hasJsonMatch(BatchText)
                /\ ~jsonParses(jsonMatch(BatchText))) => call.result = emptyMap
        /\ (BatchAnswered /\ hasJsonMatch(BatchText)
                /\ \A k \in 1..Len(BatchItems) : IsObject(BatchItems[k])) =>
               LET named == {n \in 1..Len(call.paths) :
                               \E k \in 1..Len(BatchItems) :
                                   BatchItems[k].id = fileId(n)}
               IN  /\ DOMAIN call.result = {call.paths[n] : n \in named}
                   /\ \A n \in named :
                          call.result[call.paths[n]] =
                              DecisionOf(LastItemFor(BatchItems, n), call.targetFolders)

\* The answer names file_9, which is no input file, and then file_1: the map
\* holds file_1's folder and nothing else, and nothing was thrown.
C13_Witness ==
    /\ BatchParsed /\ ~call.threw
    /\ BatchText = <<Tok("["), Obj(fileId(9), FolderA), Obj(fileId(1), FolderA), Tok("]")>>
    /\ call.result = [p \in {BatchPaths[1]} |-> FolderA]

Classified == call.fn = "classifyFile" /\ call.done

FileDataBuilt == call.fn = "batchFileData" /\ call.done

\* What a failure of classifyFile is caused by: the message of the error.
ReadFailed == ~call.readOk

NoCredential == call.readOk /\ call.geminiApiKey = <<>>

RequestFailed ==
    call.readOk /\ call.geminiApiKey # <<>> /\ call.fetched.kind # "ok"

\* C17: classifyFile never throws.  A failed read, an empty credential, a
\* timeout, a non-2xx response and a transport failure each give a result
\* with success false, targetFolder null, status FAILED and the message of
\* the error; with an empty credential no request is sent.
C17_ClassifyNeverThrows ==
    Classified =>
        /\ ~call.threw
        /\ (ReadFailed \/ NoCredential \/ RequestFailed) =>
               /\ call.result.success = FALSE
               /\ call.result.targetFolder = null
               /\ call.result.status = "FAILED"
        /\ ReadFailed => call.result.error = <<"read failed">>
        /\ NoCredential => call.result.error = <<"API key is not set">>
        /\ RequestFailed =>
               \E m \in {"API request timed out", "API request failed with status",
                          "fetch failed"} :
                   call.result.error = <<"API call failed: ", m>>
        /\ call.geminiApiKey = <<>> => call.requests = <<>>

\* The request timed out: a failed result with the message, nothing thrown.
C17_Witness ==
    /\ Classified /\ ~call.threw
    /\ call.fetched.kind = "timeout" /\ RequestFailed
    /\ call.result.status = "FAILED" /\ ~call.result.success
    /\ call.result.error = <<"API call failed: ", "API request timed out">>
    /\ Len(call.requests) = 1

\* The content sent, given the content read and the cap.
Capped(content, cap) ==
    IF Len(content) > cap
    THEN [k \in 1..(cap + 3) |-> IF k <= cap THEN content[k] ELSE 0]
    ELSE content

\* The cap of a single-note request for a value of maxContentLength.
SingleCap(m) == IF m \in SliderValues THEN m ELSE 1000

Truncation ==
    /\ Classified /\ call.requests # <<>> =>
          call.requests[1].content =
              Capped(call.content, SingleCap(call.maxContentLength))
    /\ FileDataBuilt => call.result.content = Capped(call.content, 300)

\* C18 as stated: content longer than the cap is sent as its first cap
\* characters followed by '...', other content unchanged; and for every
\* maxContentLength of the slider, 100 to 3000, the cap of a single-note
\* request is larger than the cap 300 of a batch item.
C18_TruncationCaps_Original ==
    /\ Truncation
    /\ (Classified /\ call.maxContentLength \in SliderValues) =>
          singleMaxLength(call.maxContentLength) > batchMaxLength

\* C18 as amended: the same truncation; the cap of a single-note request is
\* maxContentLength, or 1000 when that is unset, and it is larger than the
\* batch cap 300 unless maxContentLength is 100, 200 or 300.
C18_TruncationCaps ==
    /\ Truncation
    /\ Classified =>
          (singleMaxLength(call.maxContentLength) > batchMaxLength
              <=> call.maxContentLength \notin {100, 200, 300})

\* maxContentLength is 400 and the note has 401 characters: 400 of them and
\* the ellipsis are sent.
C18_Witness ==
    /\ Classified /\ call.requests # <<>>
    /\ call.maxContentLength = 400
    /\ Len(call.content) = 401
    /\ Len(call.requests[1].content) = 403
    /\ call.requests[1].content[400] = 400
    /\ call.requests[1].content[401] = 0

(***************************************************************************)
(* Properties of classifyFileBatch, under SpecChunks.                      *)
(***************************************************************************)
Batching == call.fn = "classifyFileBatch"

\* The chunk a task belongs to: tasks 1..5 are chunk 1, 6..10 chunk 2.
ChunkNumber(k) == ((k - 1) \div 5) + 1

\* ceil(n / 5)
ChunkCount(n) == (n + 4) \div 5

\* C15: at most 5 classifyFile calls are in flight; a task is started only
\* when every task of the chunks before its own has finished; the list
\* returned has one result per task, in task order.
C15_ChunksAreSequential ==
    Batching =>
        /\ Cardinality(call.pending) <= 5
        /\ \A k \in call.started : \A j \in 1..call.n :
               ChunkNumber(j) < ChunkNumber(k) =>
                   j \in call.started /\ j \notin call.pending
        /\ \A k \in 1..Len(call.results) : call.results[k].file = k
        /\ call.pc = "done" => Len(call.results) = call.n

\* A call over 11 tasks returned, the tasks of the third chunk in flight
\* only after the ten before had finished.
C15_Witness ==
    /\ Batching /\ call.pc = "done"
    /\ call.n = 11 /\ Len(call.results) = 11
    /\ call.results[11].file = 11
    /\ ~call.results[6].success /\ call.results[7].success

\* C16: a pause of 2 seconds begins after every chunk but the last: when
\* the call returns, max(0, ceil(n/5) - 1) pauses have happened; while a
\* pause lasts, the chunks before it are complete and no task of the next
\* chunk has started.
C16_PauseBetweenChunks ==
    Batching =>
        /\ \A p \in 1..Len(call.pauses) :
               call.pauses[p].ms = 2000 /\ call.pauses[p].after = 5 * p
        /\ call.pc = "pause" =>
               /\ call.pending = {}
               /\ Len(call.results) = 5 * Len(call.pauses)
               /\ call.started = 1..(5 * Len(call.pauses))
               /\ 5 * Len(call.pauses) < call.n
        /\ call.pc = "join" => Len(call.pauses) = ChunkNumber(call.i + 1) - 1
        /\ call.pc = "done" =>
               Len(call.pauses) = IF call.n = 0 THEN 0 ELSE ChunkCount(call.n) - 1

\* A call over 10 tasks returned after one pause: none followed the second
\* chunk.
C16_Witness ==
    /\ Batching /\ call.pc = "done"
    /\ call.n = 10
    /\ Len(call.pauses) = 1
    /\ Len(call.results) = 10

(***************************************************************************)
(* Properties of the bulk run, under Spec and FairSpec.                    *)
(***************************************************************************)
SortInboxCalled ==
    \E trigger \in Triggers, listingThrows \in BOOLEAN :
        SortInbox(trigger, listingThrows)

Completion ==
    \/ \E r \in 1..MaxRuns, readOk \in BOOLEAN : ReadDone(r, readOk)
    \/ \E r \in 1..MaxRuns, fetched \in FetchOutcomes : FetchDone(r, fetched)
    \/ \E r \in 1..MaxRuns, existsThrows \in BOOLEAN : ExistsDone(r, existsThrows)
    \/ \E r \in 1..MaxRuns, createOk \in BOOLEAN : CreateDone(r, createOk)
    \/ \E r \in 1..MaxRuns, renameOk \in BOOLEAN : RenameDone(r, renameOk)

\* Every awaited read, request and move step completes.
FairSpec == Spec /\ WF_vars(Completion)

RunsInFlight == {r \in 1..Len(runs) : runs[r].pc # "done"}

Counted(summary) ==
    summary.classifiedFiles + summary.skippedFiles + summary.failedFiles

Counters(summary) ==
    <<summary.totalFiles, summary.classifiedFiles, summary.skippedFiles,
      summary.failedFiles, summary.folderCounts>>

\* C1: at most one bulk run is in progress at any time, and a sortInbox call
\* that finds inProgress true starts no run and moves nothing.
C1_SingleFlight ==
    /\ [](Cardinality(RunsInFlight) <= 1)
    /\ [][(currentBatch.inProgress /\ SortInboxCalled) =>
              (runs' = runs /\ files' = files /\ folders' = folders)]_vars

\* A call was rejected while a run was in flight.
C1_Witness ==
    /\ notice = "alreadyRunning"
    /\ Cardinality(RunsInFlight) = 1
    /\ currentBatch.inProgress

\* C2: a run that is in progress eventually is not, and inProgress is true
\* only while a call is in flight.
C2_ReturnsToIdle ==
    /\ (currentBatch.inProgress ~> ~currentBatch.inProgress)
    /\ [](currentBatch.inProgress => RunsInFlight # {})

\* A run with a failed note ended, and the guard is open.
C2_Witness ==
    /\ runs # <<>> /\ RunsInFlight = {}
    /\ currentBatch.summary.failedFiles > 0
    /\ ~currentBatch.inProgress
    /\ ~GuardRejects

\* C3: a sortInbox call made while a run is in progress leaves currentBatch
\* (the object, its tasks, startTime and Summary) and the runs unchanged.
C3_RejectedCallChangesNothing ==
    [][(currentBatch.inProgress /\ SortInboxCalled) =>
          (currentBatch' = currentBatch /\ runs' = runs)]_vars

\* A call was rejected in the middle of a run that had counted a note.
C3_Witness ==
    /\ notice = "alreadyRunning"
    /\ currentBatch.inProgress
    /\ Counted(currentBatch.summary) > 0

NumberOf(log, kind) == Cardinality({k \in 1..Len(log) : log[k].kind = kind})

MoveFailures(log) == {k \in 1..Len(log) : log[k].cause = "move"}

InboxMembers ==
    {k \in 1..Len(files) : isFileInInboxFolder(settings.inboxFolder, files[k].path)}

RECURSIVE SumOver(_, _)
SumOver(fc, keys) ==
    IF keys = {} THEN 0
    ELSE LET k == CHOOSE k \in keys : TRUE
         IN  fc[k] + SumOver(fc, keys \ {k})

\* C4: the Summary starts with totalFiles the number of candidates and the
\* other counters zero; every candidate that finished is counted in exactly
\* one counter, once; the counters add up to totalFiles when the run ends;
\* no counter changes while the batch is idle.
C4_SummaryCounts ==
    /\ [](\A r \in 1..Len(runs) :
            LET sm == currentBatch.summary
                log == runs[r].log
            IN  /\ sm.totalFiles = Len(runs[r].files)
                /\ sm.classifiedFiles = NumberOf(log, "classified")
                /\ sm.skippedFiles = NumberOf(log, "skipped")
                /\ sm.failedFiles = NumberOf(log, "failed")
                /\ \A k \in 1..Len(log) : log[k].file = runs[r].files[k]
                /\ Counted(sm) <= sm.totalFiles
                /\ runs[r].pc = "done" => Counted(sm) = sm.totalFiles)
    /\ [][currentBatch'.id # currentBatch.id =>
              currentBatch'.summary = newSummary(Cardinality(InboxMembers))]_vars
    /\ [][(~currentBatch.inProgress /\ currentBatch'.id = currentBatch.id) =>
              Counters(currentBatch'.summary) = Counters(currentBatch.summary)]_vars

\* A run over two notes ended with one classified and one failed.
C4_Witness ==
    /\ runs # <<>> /\ RunsInFlight = {}
    /\ currentBatch.summary.totalFiles = 2
    /\ currentBatch.summary.classifiedFiles = 1
    /\ currentBatch.summary.failedFiles = 1

\* C5: every candidate of the run's list is submitted to classifyFile, in
\* list order, whatever happened to the notes before it.
C5_EveryCandidateSubmitted ==
    \A r \in 1..Len(runs) :
        /\ runs[r].files = currentBatch.tasks
        /\ runs[r].submitted = SubSeq(runs[r].files, 1, runs[r].i)
        /\ runs[r].pc = "done" => runs[r].submitted = runs[r].files

\* The first note failed in its move, the second was still classified.
C5_Witness ==
    /\ runs # <<>> /\ runs[1].pc = "done"
    /\ Len(runs[1].log) = 2
    /\ runs[1].log[1].kind = "failed" /\ runs[1].log[1].cause = "move"
    /\ runs[1].log[2].kind = "classified"

\* C6: when every note of a run of n notes was classified to a folder and
\* the move failed for k of them, the final Summary is total n, classified
\* n-k, failed k, skipped 0; the per-folder counters add up to n-k and the
\* k notes are at the paths they had.
C6_MoveFailuresCountAsFailed ==
    \A r \in 1..Len(runs) :
        LET log == runs[r].log
            n == Len(runs[r].files)
            k == Cardinality(MoveFailures(log))
            sm == currentBatch.summary
        IN  (/\ runs[r].pc = "done"
             /\ \A j \in 1..Len(log) :
                    log[j].cause # "classify" /\ log[j].kind # "skipped")
            => /\ sm.totalFiles = n
               /\ sm.classifiedFiles = n - k
               /\ sm.failedFiles = k
               /\ sm.skippedFiles = 0
               /\ SumOver(sm.folderCounts, DOMAIN sm.folderCounts) = n - k
               /\ \A j \in MoveFailures(log) :
                      files[runs[r].files[j]].path = runs[r].startPaths[j]

\* Two notes were classified to a folder; the move failed for one of them.
C6_Witness ==
    /\ runs # <<>> /\ runs[1].pc = "done"
    /\ Len(runs[1].log) = 2
    /\ Cardinality(MoveFailures(runs[1].log)) = 1
    /\ \E j \in 1..2 : runs[1].log[j].kind = "classified"
    /\ currentBatch.summary.classifiedFiles = 1
    /\ currentBatch.summary.failedFiles = 1

\* C14: a bulk run over at least 3 notes with high-accuracy mode off sends
\* one combined request and submits no note to classifyFile; any other run
\* classifies per note in chunks of 5, the notes of a chunk submitted
\* together.
C14_BatchingPolicy ==
    \A r \in 1..Len(runs) :
        LET n == Len(runs[r].files)
        IN  IF n >= 3 /\ ~settings.highAccuracyMode
            THEN runs[r].submitted = <<>>
            ELSE Len(runs[r].submitted) >= Min({5, n})

(***************************************************************************)
(* Properties of the automatic classification, under SpecAuto.             *)
(***************************************************************************)
SetupAutoClassifyRan == Onload \/ SaveSettingsDone(TRUE)

\* C19: at most one interval timer is live; when setupAutoClassify has run,
\* one is live iff autoClassifyEnabled and autoClassifyInterval > 0, and it
\* is the one autoClassifyIntervalId names; with no timer to cancel and
\* none to create, the timers are unchanged.
C19_AtMostOneTimer ==
    /\ [](Cardinality(IntervalTimers) <= 1)
    /\ [](\A t \in IntervalTimers : t.id = autoClassifyIntervalId)
    /\ [](autoClassifyIntervalId # 0 => IntervalTimers # {})
    /\ [][SetupAutoClassifyRan => (IntervalTimers' # {} <=> TimerLive')]_vars
    /\ [][(SetupAutoClassifyRan /\ autoClassifyIntervalId = 0 /\ ~TimerLive) =>
              timers' = timers]_vars

\* The interval was set while a timeout was pending: the interval timer is
\* the only one of its kind and every saveSettings has returned.
C19_Witness ==
    /\ loaded /\ saving = 0 /\ TimerLive
    /\ Cardinality(IntervalTimers) = 1
    /\ autoClassifyIntervalId = 2
    /\ \E t \in timers : t.kind = "timeout"

\* An event qualifies when the created object is a file with extension md
\* that isFileInInboxFolder accepts, and autoClassifyEnabled was true.
Qualifies(e) ==
    /\ e.file.isTFile /\ e.file.extension = "md"
    /\ isFileInInboxFolder(e.inboxFolder, e.file.path)
    /\ e.autoClassifyEnabled

PendingFor(e) == {t \in timers : t.kind = "timeout" /\ t.event = e}

StartedFor(e) == {k \in 1..Len(singles) : singles[k].event = e}

DoneFor(e) == {k \in StartedFor(e) : singles[k].pc = "done"}

\* C21: no step of classifySingleFile changes currentBatch (its inProgress
\* flag and its Summary included), and the guard of the bulk run does not
\* hold it up: once the timeout of a created note is pending the call
\* starts and returns, also when a bulk run stays in progress for ever.
C21_SingleFileIsNotGated ==
    /\ [][singles' # singles => currentBatch' = currentBatch]_vars
    /\ (\E e \in 1..Len(events) : PendingFor(e) # {} /\ DoneFor(e) = {})
          ~> (\A e \in 1..Len(events) : Qualifies(events[e]) => DoneFor(e) # {})

\* A bulk run is in progress and has not got past the read of its first
\* note, and a classifySingleFile has moved that note.
C21_Witness ==
    /\ currentBatch.inProgress
    /\ Len(runs) = 1 /\ runs[1].pc = "read" /\ runs[1].i = 1
    /\ \E s \in 1..Len(singles) :
          singles[s].outcome = "moved" /\ singles[s].file.note = runs[1].files[1]

(***************************************************************************)
(* Where a classified note goes.                                           *)
(***************************************************************************)
\* <watch>/<folder>/<file name>, and <folder>/<file name> with no watch folder.
Destination(W, folder, path) ==
    (IF W = <<>> THEN folder ELSE W \o <<"/">> \o folder)
        \o <<"/">> \o fileName(path)

DestinationFolder(W, folder) ==
    IF W = <<>> THEN folder ELSE W \o <<"/">> \o folder

\* The watch folder as configured.
Watch == WatchFolder(settings.inboxFolder)

\* Run r is between adapter.exists and the return of renameFile.
Moving(r) == runs[r].pc \in {"exists", "create", "rename"}

\* The step in which run r lands an outcome of the given kind.
Lands(r, kind) ==
    /\ r \in 1..Len(runs) /\ r \in 1..Len(runs')
    /\ Len(runs'[r].log) = Len(runs[r].log) + 1
    /\ runs'[r].log[Len(runs'[r].log)].kind = kind

\* C22: a note classified to a folder is renamed to exactly
\* <watch>/<folder>/<file name>; the folder is created only when it does
\* not exist; renameFile is called only after the check found the folder
\* or the creation made it, and after a failed check or creation no
\* rename follows and no path changes; when the run is done every
\* classified note is at its destination, every other note where it was,
\* and the Summary counts the outcomes.
C22_MovedToWatchFolderSubfolder ==
    /\ [](\A r \in 1..Len(runs) :
            Moving(r) =>
                /\ runs[r].targetPath =
                      Destination(Watch, runs[r].targetFolder,
                                  runs[r].startPaths[runs[r].i])
                /\ normalizePath(runs[r].fullTargetFolder) =
                      DestinationFolder(Watch, runs[r].targetFolder))
    /\ [](\A r \in 1..Len(runs) :
            runs[r].pc = "done" =>
                /\ \A j \in 1..Len(runs[r].log) :
                      IF runs[r].log[j].kind = "classified"
                      THEN \E f \in Range(settings.targetFolders) :
                              files[runs[r].log[j].file].path =
                                  Destination(Watch, f, runs[r].startPaths[j])
                      ELSE files[runs[r].log[j].file].path = runs[r].startPaths[j]
                /\ currentBatch.summary.totalFiles = Len(runs[r].files)
                /\ currentBatch.summary.classifiedFiles =
                      NumberOf(runs[r].log, "classified")
                /\ currentBatch.summary.skippedFiles =
                      NumberOf(runs[r].log, "skipped")
                /\ currentBatch.summary.failedFiles =
                      NumberOf(runs[r].log, "failed"))
    /\ [][\A k \in 1..Len(files) :
            files'[k].path # files[k].path =>
                \E r \in 1..Len(runs) :
                    /\ runs[r].pc = "rename" /\ runs[r].files[runs[r].i] = k
                    /\ files'[k].path =
                          Destination(Watch, runs[r].targetFolder, files[k].path)
                    /\ DestinationFolder(Watch, runs[r].targetFolder) \in folders
                    /\ Lands(r, "classified")]_vars
    /\ [][folders' # folders =>
            \E r \in 1..Len(runs) :
                /\ runs[r].pc = "create"
                /\ DestinationFolder(Watch, runs[r].targetFolder) \notin folders
                /\ folders' = folders \cup
                      {DestinationFolder(Watch, runs[r].targetFolder)}]_vars
    /\ [][\A r \in 1..Len(runs) :
            /\ (runs[r].pc # "rename" /\ r <= Len(runs') /\ runs'[r].pc = "rename") =>
                  \/ /\ runs[r].pc = "exists"
                     /\ DestinationFolder(Watch, runs[r].targetFolder) \in folders
                  \/ /\ runs[r].pc = "create"
                     /\ DestinationFolder(Watch, runs[r].targetFolder) \notin folders
                     /\ DestinationFolder(Watch, runs[r].targetFolder) \in folders'
            /\ (runs[r].pc = "create" /\ r <= Len(runs') /\ runs'[r].pc = "create") =>
                  runs'[r] = runs[r]
            /\ (runs[r].pc \in {"exists", "create"} /\ Lands(r, "failed")) =>
                  /\ files' = files /\ folders' = folders
                  /\ runs'[r].pc \in {"read", "done"}
                  /\ runs'[r].pc = "read" => runs'[r].i = runs[r].i + 1]_vars

\* The three notes were classified to the first folder, to none and to
\* the second folder, whose folder the run created.
C22_Witness ==
    /\ Len(runs) = 1 /\ runs[1].pc = "done"
    /\ files = <<[path |-> <<"N", "/", "A", "/", "a">>],
                 [path |-> <<"N", "/", "b">>],
                 [path |-> <<"N", "/", "B", "/", "c">>]>>
    /\ folders = {Inbox, Inbox \o <<"/">> \o FolderA, Inbox \o <<"/">> \o FolderB}
    /\ currentBatch.summary.totalFiles = 3
    /\ currentBatch.summary.classifiedFiles = 2
    /\ currentBatch.summary.skippedFiles = 1
    /\ currentBatch.summary.failedFiles = 0

(***************************************************************************)
(* The unclassified decision.                                              *)
(***************************************************************************)
\* The step in which call s of classifySingleFile ends with the outcome.
SingleEnds(s, outcome) ==
    /\ s \in 1..Len(singles) /\ s \in 1..Len(singles')
    /\ singles[s].outcome = "none" /\ singles'[s].outcome = outcome

SingleMoving(s) == singles[s].pc \in {"exists", "create", "rename"}

\* C23: a note whose classification succeeds with no folder is not moved
\* and no folder is made for it: moveFileToFolder is called only with a
\* folder of the list, and the outcome follows the classification at
\* once; in a bulk run it adds one to skipped and to no other counter; in
\* classifySingleFile it changes nothing but the Notice; neither step
\* changes a path or the folders.
C23_UnclassifiedStaysInPlace ==
    /\ [](\A r \in 1..Len(runs) :
            Moving(r) => runs[r].targetFolder \in Range(settings.targetFolders))
    /\ [](\A s \in 1..Len(singles) :
            SingleMoving(s) =>
                singles[s].targetFolder \in Range(settings.targetFolders))
    /\ [][\A r \in 1..MaxRuns :
            Lands(r, "skipped") =>
                /\ runs[r].pc = "fetch"
                /\ files' = files /\ folders' = folders
                /\ currentBatch'.summary.skippedFiles =
                      currentBatch.summary.skippedFiles + 1
                /\ currentBatch'.summary.classifiedFiles =
                      currentBatch.summary.classifiedFiles
                /\ currentBatch'.summary.failedFiles =
                      currentBatch.summary.failedFiles
                /\ currentBatch'.summary.folderCounts =
                      currentBatch.summary.folderCounts]_vars
    /\ [][\A s \in 1..MaxEvents :
            SingleEnds(s, "skipped") =>
                /\ singles[s].pc = "fetch"
                /\ files' = files /\ folders' = folders
                /\ currentBatch' = currentBatch]_vars

\* A bulk run and a classifySingleFile both found no folder for the note,
\* and it is where it was.
C23_Witness ==
    /\ Len(runs) = 1 /\ runs[1].pc = "done"
    /\ runs[1].log[1].kind = "skipped"
    /\ currentBatch.summary.skippedFiles = 1
    /\ \E s \in 1..Len(singles) :
          singles[s].outcome = "skipped" /\ singles[s].file.note = runs[1].log[1].file
    /\ files[runs[1].log[1].file].path = runs[1].startPaths[1]
    /\ folders = {Inbox, Inbox \o <<"/">> \o FolderA}

(***************************************************************************)
(* The candidates of a bulk run.                                           *)
(***************************************************************************)
\* The notes that are direct children of the watch folder W.
ChildrenOf(W) == {k \in 1..Len(files) : DirectChild(W, files[k].path)}

\* A sortInbox call that passed the guard and whose listing did not throw:
\* the step shows one of the three Notices of lines 491-506, which no
\* other method shows, or makes a batch.
SortInboxListed ==
    /\ notice' \in {"noInbox", "noFiles", "classifying"}
    /\ notice' # notice \/ currentBatch'.id # currentBatch.id

StartsRunOver(members) ==
    /\ notice' = "classifying"
    /\ Len(runs') > 0
    /\ Range(runs'[Len(runs')].files) = members
    /\ NoDuplicates(runs'[Len(runs')].files)
    /\ Range(currentBatch'.tasks) = members

\* C24 as stated: the candidates of a bulk run are the notes that are
\* direct children of the watch folder, and with an empty watch folder
\* the notes at the root of the vault.
C24_CandidatesAreMembers_Original ==
    [][SortInboxListed =>
          IF ChildrenOf(Watch) = {}
          THEN runs' = runs /\ currentBatch' = currentBatch
          ELSE StartsRunOver(ChildrenOf(Watch))]_vars

\* C24: the candidates of a bulk run are the notes isFileInInboxFolder
\* accepts, the test handleFileCreated applies; with a watch folder that
\* is not empty they are its direct children; with an empty watch folder
\* there are none and sortInbox starts no run.
C24_CandidatesAreMembers ==
    [][SortInboxListed =>
          LET members == InboxMembers
          IN  /\ IF members = {}
                 THEN runs' = runs /\ currentBatch' = currentBatch
                 ELSE StartsRunOver(members)
              /\ members = IF Watch # <<>> THEN ChildrenOf(Watch) ELSE {}
              /\ settings.autoClassifyEnabled =>
                    members = {k \in 1..Len(files) :
                                  passesChecks(TFile(files[k].path, "md"))}]_vars

\* A run has started over the two notes of the watch folder; the note in
\* a subfolder and the note at the root are not among its files.
C24_Witness ==
    /\ notice = "classifying" /\ currentBatch.inProgress
    /\ Len(files) = 4 /\ Len(runs) = 1
    /\ runs[1].files = <<1, 2>>
    /\ ChildrenOf(<<>>) # {}

(***************************************************************************)
(* The moves attempted on one note.                                        *)
(***************************************************************************)
\* The bulk runs and the classifySingleFile calls whose renameFile of note
\* k has been called and has not returned.
RunsRenaming(k) ==
    {r \in 1..Len(runs) : runs[r].pc = "rename" /\ runs[r].files[runs[r].i] = k}

SinglesRenaming(k) ==
    {s \in 1..Len(singles) : singles[s].pc = "rename" /\ singles[s].file.note = k}

\* C25 as stated: no note has two moves attempted on it; a note of the
\* candidate list of a run in progress is not moved by classifySingleFile.
C25_OneMovePerNote_Original ==
    \A k \in 1..Len(files) :
        /\ Cardinality(RunsRenaming(k)) + Cardinality(SinglesRenaming(k)) <= 1
        /\ \A r \in 1..Len(runs) :
              (runs[r].pc # "done" /\ k \in Range(runs[r].files)) =>
                  SinglesRenaming(k) = {}

\* C25: a bulk run lists a note once and calls renameFile for it at most
\* once, its outcome landing when the call returns; a classifySingleFile
\* call calls renameFile at most once and returns when it does; the bulk
\* runs never have two renames of a note pending.  Nothing keeps a bulk
\* run and a classifySingleFile call from both renaming the same note.
C25_OneMovePerNote ==
    /\ [](\A r \in 1..Len(runs) : NoDuplicates(runs[r].files))
    /\ [](\A k \in 1..Len(files) : Cardinality(RunsRenaming(k)) <= 1)
    /\ [][\A r \in 1..Len(runs) :
            (runs[r].pc = "rename" /\ r <= Len(runs') /\ runs'[r] # runs[r]) =>
                /\ Len(runs'[r].log) = Len(runs[r].log) + 1
                /\ runs'[r].pc = "done" \/ runs'[r].i = runs[r].i + 1]_vars
    /\ [][\A s \in 1..Len(singles) :
            (singles[s].pc \in {"rename", "done"} /\ singles'[s] # singles[s]) =>
                singles[s].pc = "rename" /\ singles'[s].pc = "done"]_vars

\* The run in progress and a classifySingleFile call have both called
\* renameFile for the same note, and neither call has returned.
C25_Witness ==
    \E k \in 1..Len(files) :
        /\ currentBatch.inProgress
        /\ RunsRenaming(k) # {} /\ SinglesRenaming(k) # {}

(***************************************************************************)
(* A later bulk run.                                                       *)
(***************************************************************************)
\* The notes of the vault fs that isFileInInboxFolder accepts.
MembersOf(fs) ==
    {k \in 1..Len(fs) : isFileInInboxFolder(settings.inboxFolder, fs[k].path)}

\* The step in which sortInbox makes a batch and starts its loop.
RunStarts == notice' = "classifying" /\ currentBatch'.id # currentBatch.id

\* C26: the rename of a run takes a note out of the candidates, one level
\* below the watch folder, and no step brings a note among them, so the
\* candidates are notes that were never moved; a run lists candidates
\* only, and each listed note is where it was when its turn comes.
C26_MovedNoteIsNoCandidate ==
    /\ [][files' # files =>
            \A k \in 1..Len(files) :
                /\ k \in MembersOf(files') =>
                      k \in MembersOf(files) /\ files'[k].path = files[k].path
                /\ files'[k].path # files[k].path =>
                      /\ Watch # <<>>
                      /\ k \in MembersOf(files) /\ k \notin MembersOf(files')
                      /\ \E f \in Range(settings.targetFolders) :
                            DirectChild(Watch \o <<"/">> \o f, files'[k].path)]_vars
    /\ [][RunStarts =>
            /\ Range(runs'[Len(runs')].files) \subseteq MembersOf(files)
            /\ runs'[Len(runs')].startPaths =
                  [j \in 1..Len(runs'[Len(runs')].files) |->
                      files[runs'[Len(runs')].files[j]].path]]_vars
    /\ [](\A r \in 1..Len(runs) :
            runs[r].pc # "done" =>
                \A j \in runs[r].i..Len(runs[r].files) :
                    files[runs[r].files[j]].path = runs[r].startPaths[j])

\* A first run moved one note and left the other; the run after it has
\* run over the other note alone and is done.
C26_Witness ==
    /\ currentBatch.id = 2 /\ ~currentBatch.inProgress
    /\ Len(runs) = 1 /\ runs[1].pc = "done" /\ runs[1].files = <<2>>
    /\ files[1].path = Inbox \o <<"/">> \o FolderB \o <<"/", NameChars[1]>>
    /\ currentBatch.summary.totalFiles = 1

(***************************************************************************)
(* The timer after onunload.                                               *)
(***************************************************************************)
\* C27: while the plugin is unloaded no interval timer is live, also when
\* a saveSettings that was awaiting saveData at the unload goes on after
\* it; so no sortInbox is started by the timer after the unload.
C27_NoTimerAfterUnload ==
    ~loaded => IntervalTimers = {}

====
